---------------------------- MODULE Spec2Model ----------------------------
(***************************************************************************)
(* A model of the Chord node of chord_node/src/node.rs: identifier         *)
(* arithmetic, routing (find_successor), the periodic loop of main.rs      *)
(* (stabilize, fix_fingers, check_predecessor, maintain_replication),      *)
(* join, graceful leave, key transfer and the put/get/replicate handlers.  *)
(*                                                                         *)
(* A node is identified by its id (NodeInfo.id); NodeInfo.address is       *)
(* determined by the id and is never empty.  The identifier ring has       *)
(* RingBits bits instead of 64, and the finger table RingBits entries.     *)
(***************************************************************************)
EXTENDS Integers, Sequences, FiniteSets, TLC

\* ------------------------------------------------------------ constants

\* Width of the identifier space in the model (u64 in the code).
RingBits == 3

RingSize == 2 ^ RingBits

Ids == 0 .. (RingSize - 1)

\* constants.rs
FINGER_TABLE_SIZE == RingBits

REPLICATION_COUNT == 2

SUCCESSOR_LIST_LIMIT == 5

\* The ids (hash_addr of the address) of the node processes of the scenarios
\* with up to three nodes.
Nodes == {1, 3, 6}

\* All node processes of the model: those of Nodes and one more, which only
\* the scenarios with a ring of four start.
Procs == Nodes \cup {4}

\* The node started without --join.
Bootstrap == CHOOSE n \in Nodes : \A m \in Nodes : n <= m

\* The keys the clients of the scenarios with a single key use.
Keys == {"k"}

\* All keys of the model: that of Keys and one more, which only the
\* scenarios with several keys use.
AllKeys == Keys \cup {"j"}

Vals == {"v1", "v2"}

\* Number of client put requests in a run.
MaxPuts == 2

\* Option::None of NodeState.predecessor: no node id.
None == 0 - 1

NoVal == "NoVal"

\* Status::unavailable: no hop answered.
Unavailable == 0 - 2

\* A request that never returns: the chain of RPCs re-enters a node that is
\* already waiting for the answer.
Hang == 0 - 3

VARIABLES
    status,          \* process state of each node: new, active, leaving, left, crashed
    predecessor,     \* NodeState.predecessor (None or a node id)
    successor_list,  \* NodeState.successor_list
    finger_table,    \* NodeState.finger_table
    store,           \* NodeState.store, NoVal for an absent key
    pc,              \* position of each node's loop (idle between activities)
    tasks,           \* spawned tasks and RPCs in flight
    hashOf,          \* hash_addr of each key
    resp,            \* the response returned by the step just taken, if it served a client
    hist             \* history of the run (puts applied, failures)

vars == <<status, predecessor, successor_list, finger_table, store, pc, tasks,
          hashOf, resp, hist>>

\* ------------------------------------------------- identifier arithmetic

\* A range test that does not wrap past zero.
linear_range(id, start, end) == id > start /\ id < end

is_in_range(id, start, end) ==
    IF start < end THEN id > start /\ id < end ELSE id > start \/ id < end

is_in_range_inclusive(id, start, end) ==
    IF start < end THEN id > start /\ id <= end ELSE id > start \/ id <= end

wrapping_add(a, b) == (a + b) % RingSize

SetMax(S) == CHOOSE m \in S : \A x \in S : x <= m

RECURSIVE SortDesc(_)
SortDesc(S) ==
    IF S = {} THEN <<>> ELSE <<SetMax(S)>> \o SortDesc(S \ {SetMax(S)})

Take(s, k) == SubSeq(s, 1, IF Len(s) < k THEN Len(s) ELSE k)

Range(s) == {s[i] : i \in 1 .. Len(s)}

\* ------------------------------------------------------------- routing

\* An RPC to node c succeeds iff c's server is running (a leaving node serves
\* until its process exits).
Reachable(c) == status[c] \in {"active", "leaving"}

\* A node that knows no finger to forward to.
no_candidates(n, id) == <<>>

\* Finger entries strictly between self and id, highest id first, no duplicates.
get_closest_candidates(n, id) ==
    SortDesc({finger_table[n][i] : i \in 0 .. (FINGER_TABLE_SIZE - 1)}
             \cap {f \in Procs : is_in_range(f, n, id)})

RECURSIVE find_successor_internal(_, _, _)
RECURSIVE TryHops(_, _, _, _)
RECURSIVE next_hop(_, _, _, _)

\* A request that fails as soon as one hop cannot be contacted.
give_up(n, id, hops, visited) == Unavailable

\* The RPC to the first of hops failed: log and continue with the others.
next_hop(n, id, hops, visited) == TryHops(n, id, Tail(hops), visited)

\* The hops of find_successor_internal after the local checks: the finger
\* candidates, then the successor list, each asked in turn until one answers.
TryHops(n, id, hops, visited) ==
    IF hops = <<>> THEN Unavailable
    ELSE LET c == Head(hops) IN
         IF c = n THEN TryHops(n, id, Tail(hops), visited)
         ELSE IF ~Reachable(c) THEN next_hop(n, id, hops, visited)
         ELSE IF c \in visited THEN Hang
         ELSE LET r == find_successor_internal(c, id, visited) IN
              IF r = Unavailable THEN TryHops(n, id, Tail(hops), visited)
              ELSE r

\* visited: the nodes already waiting for the answer of this request.
find_successor_internal(n, id, visited) ==
    LET successor == Head(successor_list[n]) IN
    IF is_in_range_inclusive(id, n, successor) THEN successor
    ELSE LET candidates == get_closest_candidates(n, id) IN
         IF candidates = <<>> THEN successor
         ELSE TryHops(n, id, candidates \o successor_list[n], visited \cup {n})

\* The find_successor RPC served by node n.
find_successor(n, id) == find_successor_internal(n, id, {})

RECURSIVE Contacts(_, _, _)
\* The nodes an invocation of find_successor_internal on n sends its
\* find_successor RPC to, in order, when hops is what is left of its
\* candidates and successor list: each hop but n itself, up to the first
\* that returns a node (or never returns).
Contacts(n, id, hops) ==
    IF hops = <<>> THEN <<>>
    ELSE LET c == Head(hops) IN
         IF c = n THEN Contacts(n, id, Tail(hops))
         ELSE IF Reachable(c) /\ find_successor_internal(c, id, {n}) # Unavailable
              THEN <<c>>
              ELSE <<c>> \o Contacts(n, id, Tail(hops))

IsNode(r) == r \in Procs

\* ------------------------------------------------------------ Node::new

NewPredecessor == [n \in Procs |-> None]

NewSuccessorList == [n \in Procs |-> <<n>>]

NewFingerTable == [n \in Procs |-> [i \in 0 .. (FINGER_TABLE_SIZE - 1) |-> n]]

NewStore == [n \in Procs |-> [k \in AllKeys |-> NoVal]]

NoResp == [op |-> "none"]

NoHist == [puts |-> 0, last |-> [k \in AllKeys |-> NoVal], vals |-> [k \in AllKeys |-> {}],
           entries |-> {}, crashed |-> {}, joined |-> {}, left |-> {}]

\* The hash functions that spread the keys of K over the ring (a key no
\* client uses hashes to 0).
HashOver(K) == {h \in [AllKeys -> Ids] : \A k \in AllKeys \ K : h[k] = 0}

\* No background activity of the node is in progress.
Idle == "idle"

\* The program after construction: the bootstrap node serves alone, the other
\* processes have not been started with --join yet.
Init ==
    /\ status = [n \in Procs |-> IF n = Bootstrap THEN "active" ELSE "new"]
    /\ predecessor = NewPredecessor
    /\ successor_list = NewSuccessorList
    /\ finger_table = NewFingerTable
    /\ store = NewStore
    /\ pc = [n \in Procs |-> Idle]
    /\ tasks = {}
    /\ hashOf = [k \in AllKeys |-> 0]
    /\ resp = NoResp
    /\ hist = NoHist

\* ----------------------------------------------------------------- join

\* main.rs: a process started with --join asks node m for the successor of
\* its own id and starts its loop and server.
\* A join that puts the answer in front of the list.
push_front(list, info) == <<info>> \o list

\* state.successor_list[0] = info
set_successor(list, info) == [list EXCEPT ![1] = info]

join(n, m) ==
    /\ status[n] = "new"
    /\ Reachable(m)
    /\ LET info == find_successor(m, n) IN
       /\ IsNode(info)
       /\ successor_list' = [successor_list EXCEPT ![n] = set_successor(@, info)]
    /\ status' = [status EXCEPT ![n] = "active"]
    /\ hist' = [hist EXCEPT !.joined = @ \cup {n}]
    /\ resp' = NoResp
    /\ UNCHANGED <<predecessor, finger_table, store, pc, tasks, hashOf>>

\* The find_successor RPC of join fails: the contact m does not run, or it
\* answers with an error.  join returns the error before it writes anything
\* and main exits; the process may be started again.
join_error(n, m) ==
    /\ status[n] = "new"
    /\ ~Reachable(m) \/ find_successor(m, n) = Unavailable
    /\ resp' = [op |-> "join", via |-> n, contact |-> m, ok |-> FALSE]
    /\ UNCHANGED <<status, predecessor, successor_list, finger_table, store, pc,
                   tasks, hashOf, hist>>

\* ---------------------------------------------------------------- notify

\* A notify handler that hands no key over.
no_keys(s, p) == {}

\* Keys of node s that are not in (p, s]: handed to the new predecessor p.
keys_to_transfer(s, p) ==
    {k \in AllKeys : store[s][k] # NoVal /\ ~is_in_range_inclusive(hashOf[k], p, s)}

\* A notify handler that only fills an absent predecessor.
adopt_if_absent(s, p) == predecessor[s] = None

\* A notify handler that adopts every caller.
always_adopt(s, p) == TRUE

notify_should_update(s, p) ==
    IF predecessor[s] # None THEN is_in_range(p, predecessor[s], s) ELSE TRUE

\* A transfer whose keys are removed without waiting for the new predecessor.
remove_at_once(s, p) ==
    [type |-> "transfer", from |-> s, to |-> p, phase |-> "acked",
     kvs |-> [k \in AllKeys |-> IF k \in keys_to_transfer(s, p) THEN store[s][k] ELSE NoVal]]

\* The transfer task spawned by transfer_keys_to_new_predecessor.
TransferTask(s, p) ==
    [type |-> "transfer", from |-> s, to |-> p, phase |-> "sent",
     kvs |-> [k \in AllKeys |-> IF k \in keys_to_transfer(s, p) THEN store[s][k] ELSE NoVal]]

\* The tasks the notify handler of s spawns for potential predecessor p.
notify_tasks(s, p) ==
    IF notify_should_update(s, p) /\ keys_to_transfer(s, p) # {}
    THEN {TransferTask(s, p)} ELSE {}

\* A notify handler that never records the caller.
notify_ignored(s, p) == predecessor[s]

notify_predecessor(s, p) ==
    IF notify_should_update(s, p) THEN p ELSE predecessor[s]

\* ------------------------------------------------------------- stabilize

\* A node that keeps a successor that does not answer.
never_promote(list) == FALSE

\* A dead successor is dropped only when the list has another entry.
can_promote(list) == Len(list) > 1

\* First part of stabilize: get_predecessor on the successor, then either
\* adopt its predecessor, or drop a dead successor and return.  done: the
\* position of the loop after stabilize.
stabilize_get_predecessor_then(n, done) ==
    /\ Reachable(n)
    /\ pc[n] = Idle
    /\ LET successor == Head(successor_list[n]) IN
       IF ~Reachable(successor)
       THEN IF can_promote(successor_list[n])
            THEN /\ successor_list' = [successor_list EXCEPT ![n] = Tail(@)]
                 /\ pc' = [pc EXCEPT ![n] = done]
            ELSE /\ pc' = [pc EXCEPT ![n] = "notify"]
                 /\ UNCHANGED successor_list
       ELSE LET x == predecessor[successor] IN
            /\ pc' = [pc EXCEPT ![n] = "notify"]
            /\ IF x # None /\ is_in_range(x, n, successor)
               THEN successor_list' = [successor_list EXCEPT ![n][1] = x]
               ELSE UNCHANGED successor_list
    /\ resp' = NoResp
    /\ UNCHANGED <<status, predecessor, finger_table, store, tasks, hashOf, hist>>

stabilize_get_predecessor(n) == stabilize_get_predecessor_then(n, Idle)

\* Second part: notify the (re-read) successor.
stabilize_notify(n) ==
    /\ Reachable(n)
    /\ pc[n] = "notify"
    /\ LET successor == Head(successor_list[n]) IN
       IF Reachable(successor)
       THEN /\ predecessor' = [predecessor EXCEPT ![successor] = notify_predecessor(successor, n)]
            /\ tasks' = tasks \cup notify_tasks(successor, n)
       ELSE UNCHANGED <<predecessor, tasks>>
    /\ pc' = [pc EXCEPT ![n] = "update_list"]
    /\ resp' = NoResp
    /\ UNCHANGED <<status, successor_list, finger_table, store, hashOf, hist>>

\* A refresh that does not take over the successor's list.
head_only(successor, list) == <<successor>>

\* A refresh that keeps every entry it was sent.
untruncated(successor, list) == <<successor>> \o list

\* The list update_successor_list stores: the successor, then the successor's
\* own list, cut to SUCCESSOR_LIST_LIMIT entries.
new_list(successor, list) == Take(<<successor>> \o list, SUCCESSOR_LIST_LIMIT)

\* Third part: update_successor_list from the successor's list.
update_successor_list_then(n, done) ==
    /\ Reachable(n)
    /\ pc[n] = "update_list"
    /\ LET successor == Head(successor_list[n]) IN
       IF Reachable(successor)
       THEN successor_list' = [successor_list EXCEPT ![n] =
                new_list(successor, successor_list[successor])]
       ELSE UNCHANGED successor_list
    /\ pc' = [pc EXCEPT ![n] = done]
    /\ resp' = NoResp
    /\ UNCHANGED <<status, predecessor, finger_table, store, tasks, hashOf, hist>>

update_successor_list(n) == update_successor_list_then(n, Idle)

\* A whole round of stabilize of node n, its three RPCs served without any
\* other step in between.  done: the position of the loop after stabilize.
stabilize_then(n, done) ==
    /\ Reachable(n)
    /\ pc[n] = Idle
    /\ LET successor == Head(successor_list[n])
           x == predecessor[successor]
           adopted == IF Reachable(successor) /\ x # None /\ is_in_range(x, n, successor)
                      THEN [successor_list EXCEPT ![n][1] = x]
                      ELSE successor_list
           notified == Head(adopted[n])
       IN
       IF ~Reachable(successor) /\ can_promote(successor_list[n])
       THEN /\ successor_list' = [successor_list EXCEPT ![n] = Tail(@)]
            /\ UNCHANGED <<predecessor, tasks>>
       ELSE IF Reachable(notified)
            THEN /\ predecessor' = [predecessor EXCEPT ![notified] = notify_predecessor(notified, n)]
                 /\ tasks' = tasks \cup notify_tasks(notified, n)
                 /\ successor_list' = [adopted EXCEPT ![n] =
                        new_list(notified, adopted[notified])]
            ELSE /\ successor_list' = adopted
                 /\ UNCHANGED <<predecessor, tasks>>
    /\ pc' = [pc EXCEPT ![n] = done]
    /\ resp' = NoResp
    /\ UNCHANGED <<status, finger_table, store, hashOf, hist>>

stabilize(n) == stabilize_then(n, Idle)

\* ----------------------------------------------------------- fix_fingers

\* The loop of the node waits for a call that never returns.
Hung == "hung"

\* at, done: the positions of the loop before and after the call.  When the
\* find_successor request never returns, neither does fix_fingers, and the
\* loop of the node, which awaits it, goes no further.
fix_fingers_at(n, i, at, done) ==
    /\ Reachable(n)
    /\ pc[n] = at
    /\ LET target == wrapping_add(n, 2 ^ i)
           r == find_successor(n, target) IN
       /\ IF IsNode(r)
          THEN finger_table' = [finger_table EXCEPT ![n][i] = r]
          ELSE UNCHANGED finger_table
       /\ pc' = [pc EXCEPT ![n] = IF r = Hang THEN Hung ELSE done]
    /\ resp' = NoResp
    /\ UNCHANGED <<status, predecessor, successor_list, store, tasks, hashOf, hist>>

fix_fingers(n, i) == fix_fingers_at(n, i, Idle, Idle)

\* ----------------------------------------------------- check_predecessor

\* A check_predecessor that forgets the predecessor whatever the ping says.
always_cleared(n) == None

\* The predecessor of n after check_predecessor connected to it and pinged it.
checked_predecessor(n) ==
    IF predecessor[n] # None /\ ~Reachable(predecessor[n]) THEN None ELSE predecessor[n]

\* at, done: the positions of the loop before and after the call.
check_predecessor_at(n, at, done) ==
    /\ Reachable(n)
    /\ pc[n] = at
    /\ predecessor' = [predecessor EXCEPT ![n] = checked_predecessor(n)]
    /\ pc' = [pc EXCEPT ![n] = done]
    /\ resp' = NoResp
    /\ UNCHANGED <<status, successor_list, finger_table, store, tasks, hashOf, hist>>

check_predecessor(n) == check_predecessor_at(n, Idle, Idle)

\* -------------------------------------------------- maintain_replication

ReplicateTask(to, k, v) == [type |-> "replicate", to |-> to, key |-> k, val |-> v]

\* Replication to the immediate successor only.
first_successor_only(n) == {Head(successor_list[n])}

\* The nodes a primary replicates to: the first REPLICATION_COUNT entries of
\* its successor list.
successors_to_replicate(n) == Range(Take(successor_list[n], REPLICATION_COUNT))

is_primary(n, k) ==
    is_in_range_inclusive(hashOf[k], IF predecessor[n] # None THEN predecessor[n] ELSE n, n)

maintain_tasks(n) ==
    {ReplicateTask(to, k, store[n][k]) :
        to \in successors_to_replicate(n),
        k \in {kk \in AllKeys : store[n][kk] # NoVal /\ is_primary(n, kk)}}

maintain_replication(n) ==
    /\ Reachable(n)
    /\ pc[n] = Idle
    /\ tasks' = tasks \cup maintain_tasks(n)
    /\ resp' = NoResp
    /\ UNCHANGED <<status, predecessor, successor_list, finger_table, store, pc, hashOf, hist>>

\* ------------------------------------------------------------ put / get

\* A node that serves every request from its own store.
route_local(n, id, visited) == n

\* A request handed to the node find_successor names, whether it runs or not.
first_named(n, id, visited) == find_successor(n, id)

RECURSIVE route(_, _, _)

\* The node that serves a put or get for identifier id received by node n:
\* n itself when find_successor names n, else the request is forwarded to the
\* node named, which routes again.  visited: the nodes waiting for the reply.
route(n, id, visited) ==
    LET successor == find_successor(n, id) IN
    IF ~IsNode(successor) THEN successor
    ELSE IF successor = n THEN n
    ELSE IF ~Reachable(successor) THEN Unavailable
    ELSE IF successor \in visited THEN Hang
    ELSE route(successor, id, visited \cup {n})

\* A map on which insert has no effect.
discard(st, k, v) == st

\* store.insert(key, value) on one node's map.
insert(st, k, v) == [st EXCEPT ![k] = v]

\* A put that spawns no replicate RPC.
no_replicas(owner, k, v) == {}

\* The replicate RPCs spawned by put at the node that stores the pair.
put_tasks(owner, k, v) ==
    {ReplicateTask(to, k, v) : to \in successors_to_replicate(owner)}

\* A client's put(k, v) sent to node n.  ok: the RPC returned a response and
\* not an error status.
put(n, k, v) ==
    /\ Reachable(n)
    /\ hist.puts < MaxPuts
    /\ LET owner == route(n, hashOf[k], {}) IN
       /\ owner # Hang
       /\ resp' = [op |-> "put", via |-> n, key |-> k, ok |-> IsNode(owner)]
       /\ IF IsNode(owner)
          THEN /\ store' = [store EXCEPT ![owner] = insert(@, k, v)]
               /\ tasks' = tasks \cup put_tasks(owner, k, v)
               /\ hist' = [hist EXCEPT !.puts = @ + 1, !.last[k] = v,
                                       !.vals[k] = @ \cup {v},
                                       !.entries = @ \cup {n}]
          ELSE /\ hist' = [hist EXCEPT !.puts = @ + 1]
               /\ UNCHANGED <<store, tasks>>
    /\ UNCHANGED <<status, predecessor, successor_list, finger_table, pc, hashOf>>

\* A client's get(k) sent to node n.
get(n, k) ==
    /\ Reachable(n)
    /\ LET owner == route(n, hashOf[k], {}) IN
       /\ owner # Hang
       /\ resp' = [op |-> "get", via |-> n, key |-> k, ok |-> IsNode(owner),
                   at |-> owner,
                   found |-> IsNode(owner) /\ store[owner][k] # NoVal,
                   value |-> IF IsNode(owner) THEN store[owner][k] ELSE NoVal]
    /\ UNCHANGED <<status, predecessor, successor_list, finger_table, store, pc,
                   tasks, hashOf, hist>>

\* The replicate handler of t.to runs (or the connection fails: t.to is gone).
replicate(t) ==
    /\ t \in tasks
    /\ t.type = "replicate"
    /\ IF Reachable(t.to)
       THEN store' = [store EXCEPT ![t.to] = insert(@, t.key, t.val)]
       ELSE UNCHANGED store
    /\ tasks' = tasks \ {t}
    /\ resp' = NoResp
    /\ UNCHANGED <<status, predecessor, successor_list, finger_table, pc, hashOf, hist>>

\* The client's find_successor request sent to node n.
lookup(n, id) ==
    /\ Reachable(n)
    /\ LET r == find_successor(n, id) IN
       /\ r # Hang
       /\ resp' = [op |-> "find_successor", via |-> n, id |-> id, node |-> r]
    /\ UNCHANGED <<status, predecessor, successor_list, finger_table, store, pc,
                   tasks, hashOf, hist>>

\* -------------------------------------------------------- transfer_keys

\* A handler that keeps the pairs it already holds.
keep_existing(st, kvs) == [k \in AllKeys |-> IF st[k] # NoVal THEN st[k] ELSE kvs[k]]

\* The store of a node after the transfer_keys handler inserted kvs.
transfer_keys(st, kvs) == [k \in AllKeys |-> IF kvs[k] # NoVal THEN kvs[k] ELSE st[k]]

\* The spawned transfer of notify reaches the new predecessor.
transfer_deliver(t) ==
    /\ t \in tasks
    /\ t.type = "transfer"
    /\ t.phase = "sent"
    /\ IF Reachable(t.to)
       THEN /\ store' = [store EXCEPT ![t.to] = transfer_keys(@, t.kvs)]
            /\ tasks' = (tasks \ {t}) \cup {[t EXCEPT !.phase = "acked"]}
       ELSE /\ tasks' = tasks \ {t}
            /\ UNCHANGED store
    /\ resp' = NoResp
    /\ UNCHANGED <<status, predecessor, successor_list, finger_table, pc, hashOf, hist>>

\* The transfer was acknowledged: the sender removes the keys it sent.
transfer_ack(t) ==
    /\ t \in tasks
    /\ t.type = "transfer"
    /\ t.phase = "acked"
    /\ IF Reachable(t.from)
       THEN store' = [store EXCEPT ![t.from] =
                [k \in AllKeys |-> IF t.kvs[k] # NoVal THEN NoVal ELSE @[k]]]
       ELSE UNCHANGED store
    /\ tasks' = tasks \ {t}
    /\ resp' = NoResp
    /\ UNCHANGED <<status, predecessor, successor_list, finger_table, pc, hashOf, hist>>

\* ---------------------------------------------------------------- leave

\* The leave RPC: leave_network snapshots the store and the successor and
\* sends the whole store to the successor unless that is the node itself.
leave_network(n) ==
    /\ status[n] = "active"
    /\ hist.left = {}
    /\ LET successor == Head(successor_list[n]) IN
       IF successor # n
       THEN tasks' = tasks \cup {[type |-> "leave", from |-> n, to |-> successor,
                                  phase |-> "sent", kvs |-> store[n]]}
       ELSE UNCHANGED tasks
    /\ status' = [status EXCEPT ![n] = "leaving"]
    /\ hist' = [hist EXCEPT !.left = {n}]
    /\ resp' = NoResp
    /\ UNCHANGED <<predecessor, successor_list, finger_table, store, pc, hashOf>>

\* A leaver that keeps sending until its successor takes the keys.
retried_transfer(t) == t

\* The transfer of t failed: the error is printed and leave_network returns.
failed_transfer(t) == [t EXCEPT !.phase = "failed"]

\* The transfer_keys RPC of the leaver is served by its successor (or fails).
leave_transfer(t) ==
    /\ t \in tasks
    /\ t.type = "leave"
    /\ t.phase = "sent"
    /\ IF Reachable(t.to)
       THEN /\ store' = [store EXCEPT ![t.to] = transfer_keys(@, t.kvs)]
            /\ tasks' = (tasks \ {t}) \cup {[t EXCEPT !.phase = "acked"]}
       ELSE /\ tasks' = (tasks \ {t}) \cup {failed_transfer(t)}
            /\ UNCHANGED store
    /\ resp' = NoResp
    /\ UNCHANGED <<status, predecessor, successor_list, finger_table, pc, hashOf, hist>>

\* The leaver's process exits after the transfer returned and the grace delay.
leave_exit(n) ==
    /\ status[n] = "leaving"
    /\ \A t \in tasks : t.type = "leave" => t.phase # "sent"
    /\ status' = [status EXCEPT ![n] = "left"]
    /\ tasks' = {t \in tasks : t.type # "leave"}
    /\ resp' = NoResp
    /\ UNCHANGED <<predecessor, successor_list, finger_table, store, pc, hashOf, hist>>

\* ---------------------------------------------------------------- crash

\* A node's process is killed (at most one in a run).
crash(n) ==
    /\ status[n] = "active"
    /\ hist.crashed = {}
    /\ status' = [status EXCEPT ![n] = "crashed"]
    /\ hist' = [hist EXCEPT !.crashed = {n}]
    /\ resp' = NoResp
    /\ UNCHANGED <<predecessor, successor_list, finger_table, store, pc, tasks, hashOf>>

\* ------------------------------------------------------- the stable ring

Members == {n \in Procs : Reachable(n)}

\* Clockwise distance from a to b.
Dist(a, b) == (b - a + RingSize) % RingSize

\* The member of M at or first after id, clockwise.
Owner(id, M) == CHOOSE m \in M : \A x \in M : Dist(id, m) <= Dist(id, x)

TrueSuccessor(n, M) == Owner(wrapping_add(n, 1), M)

TruePredecessor(n, M) ==
    CHOOSE m \in M : \A x \in M :
        Dist(m, wrapping_add(n, RingSize - 1)) <= Dist(x, wrapping_add(n, RingSize - 1))

RECURSIVE SuccessorsFrom(_, _, _)
\* The next len members clockwise after n, with repetition around the ring.
SuccessorsFrom(n, M, len) ==
    IF len = 0 THEN <<>>
    ELSE <<TrueSuccessor(n, M)>> \o SuccessorsFrom(TrueSuccessor(n, M), M, len - 1)

\* Successor pointers and predecessors of the running nodes are those of the ring.
RingStable ==
    \A n \in Members :
        /\ Head(successor_list[n]) = TrueSuccessor(n, Members)
        /\ predecessor[n] = TruePredecessor(n, Members)

\* The steady state: also the successor lists and the finger tables have converged.
StableRing ==
    /\ RingStable
    /\ \A n \in Members :
        /\ successor_list[n] = SuccessorsFrom(n, Members, SUCCESSOR_LIST_LIMIT)
        /\ \A i \in 0 .. (FINGER_TABLE_SIZE - 1) :
              finger_table[n][i] = Owner(wrapping_add(n, 2 ^ i), Members)

\* A ring of the nodes M in its steady state; the other processes have not
\* been started.
StableRingInit(M) ==
    /\ status = [n \in Procs |-> IF n \in M THEN "active" ELSE "new"]
    /\ predecessor = [n \in Procs |-> IF n \in M THEN TruePredecessor(n, M) ELSE None]
    /\ successor_list = [n \in Procs |->
          IF n \in M THEN SuccessorsFrom(n, M, SUCCESSOR_LIST_LIMIT) ELSE <<n>>]
    /\ finger_table = [n \in Procs |-> [i \in 0 .. (FINGER_TABLE_SIZE - 1) |->
          IF n \in M THEN Owner(wrapping_add(n, 2 ^ i), M) ELSE n]]
    /\ pc = [n \in Procs |-> Idle]
    /\ tasks = {}
    /\ resp = NoResp

\* The same with empty stores.
StableInit(M) ==
    /\ StableRingInit(M)
    /\ store = NewStore
    /\ hist = NoHist

\* A ring without replication: only the primary holds a pair.
primary_only(id, M) == {Owner(id, M)}

\* The nodes of the stable ring M that hold an identifier's pairs once a put
\* has been replicated: the primary and its replication targets.
Holders(id, M) ==
    {Owner(id, M)}
        \cup Range(Take(SuccessorsFrom(Owner(id, M), M, SUCCESSOR_LIST_LIMIT),
                        REPLICATION_COUNT))

\* The stable ring M after put(k, v) through node e for every key k of Keys, when the
\* replicate tasks of the puts have been served.
ReplicatedInit(M, v, e) ==
    /\ StableRingInit(M)
    /\ store = [n \in Procs |-> [k \in AllKeys |->
          IF k \in Keys /\ n \in Holders(hashOf[k], M) THEN v ELSE NoVal]]
    /\ hist = [NoHist EXCEPT !.puts = Cardinality(Keys),
                             !.last = [k \in AllKeys |-> IF k \in Keys THEN v ELSE NoVal],
                             !.vals = [k \in AllKeys |-> IF k \in Keys THEN {v} ELSE {}],
                             !.entries = {e}]

\* ------------------------------------------------ ring formation (Spec)

\* Processes join a running ring and stabilize; no key is stored and no node
\* fails.  Finger tables keep their initial entries.
Next ==
    \/ \E n \in Nodes, m \in Nodes : join(n, m)
    \/ \E n \in Nodes : stabilize_get_predecessor(n)
    \/ \E n \in Nodes : stabilize_notify(n)
    \/ \E n \in Nodes : update_successor_list(n)
    \/ \E n \in Nodes : check_predecessor(n)
    \/ \E n \in Nodes : maintain_replication(n)

Spec == Init /\ [][Next]_vars

\* Every running node keeps running stabilize.
StabilizeFairness ==
    \A n \in Nodes :
        /\ WF_vars(stabilize_get_predecessor(n))
        /\ WF_vars(stabilize_notify(n))
        /\ WF_vars(update_successor_list(n))

FairSpec == Spec /\ StabilizeFairness

\* --------------------------------------- ring formation with a crash (SpecFail)

\* Processes join the bootstrap node and run stabilize step by step and
\* check_predecessor, and one of the running nodes is killed at any moment.
NextFail ==
    \/ \E n \in Nodes, m \in Nodes : join(n, m)
    \/ \E n \in Nodes : crash(n)
    \/ \E n \in Nodes : stabilize_get_predecessor(n)
    \/ \E n \in Nodes : stabilize_notify(n)
    \/ \E n \in Nodes : update_successor_list(n)
    \/ \E n \in Nodes : check_predecessor(n)

SpecFail == Init /\ [][NextFail]_vars

\* ------------------------------------------------- routing (SpecLookup)

\* A ring in its steady state serving find_successor requests while
\* fix_fingers keeps refreshing the finger tables.
InitLookup ==
    /\ \E M \in (SUBSET Nodes) \ {{}} : StableInit(M)
    /\ hashOf = [k \in AllKeys |-> 0]

NextLookup ==
    \/ \E n \in Nodes, id \in Ids : lookup(n, id)
    \/ \E n \in Nodes, i \in 0 .. (FINGER_TABLE_SIZE - 1) : fix_fingers(n, i)

SpecLookup == InitLookup /\ [][NextLookup]_vars

\* ------------------------------------------------- storage (SpecStore)

\* A ring in its steady state, of any membership and with the key hashed to
\* any identifier, serving put and get while the replicate tasks are
\* delivered in any order and the primaries run maintain_replication.
InitStore ==
    /\ \E M \in (SUBSET Nodes) \ {{}} : StableInit(M)
    /\ hashOf \in HashOver(Keys)

NextStore ==
    \/ \E n \in Nodes, k \in Keys, v \in Vals : put(n, k, v)
    \/ \E n \in Nodes, k \in Keys : get(n, k)
    \/ \E t \in tasks : replicate(t)
    \/ \E n \in Nodes : maintain_replication(n)

SpecStore == InitStore /\ [][NextStore]_vars

\* Spawned replicate tasks run to completion, and every node's loop keeps
\* calling maintain_replication.
StoreFairness ==
    /\ \A to \in Nodes, k \in Keys, v \in Vals : WF_vars(replicate(ReplicateTask(to, k, v)))
    /\ \A n \in Nodes : WF_vars(maintain_replication(n))

FairStore == SpecStore /\ StoreFairness

\* ------------------------------------------------ several keys (SpecKeys)

\* The full ring in its steady state, with two keys hashed to any
\* identifiers, takes one put of each key through any node while the
\* replicate tasks are delivered in any order and the primaries run
\* maintain_replication.
InitKeys ==
    /\ StableInit(Nodes)
    /\ hashOf \in HashOver(AllKeys)

NextKeys ==
    \/ \E n \in Nodes, k \in AllKeys, v \in Vals : hist.last[k] = NoVal /\ put(n, k, v)
    \/ \E t \in tasks : replicate(t)
    \/ \E n \in Nodes : maintain_replication(n)

SpecKeys == InitKeys /\ [][NextKeys]_vars

\* ----------------------------------------------------- join (SpecJoin)

\* A node alone in its ring, in its steady state, takes puts; then a second
\* process joins through it, both run their loops, and the key transfer that
\* notify spawns is delivered and acknowledged.
InitJoin ==
    /\ \E a \in Nodes : StableInit({a})
    /\ hashOf \in HashOver(Keys)

NextJoin ==
    \/ \E n \in Nodes, k \in Keys, v \in Vals : hist.joined = {} /\ put(n, k, v)
    \/ \E n \in Nodes, m \in Nodes : hist.joined = {} /\ join(n, m)
    \/ \E t \in tasks : replicate(t)
    \/ \E t \in tasks : transfer_deliver(t)
    \/ \E t \in tasks : transfer_ack(t)
    \/ \E n \in Nodes : stabilize_get_predecessor(n)
    \/ \E n \in Nodes : stabilize_notify(n)
    \/ \E n \in Nodes : update_successor_list(n)
    \/ \E n \in Nodes : check_predecessor(n)
    \/ \E n \in Nodes : maintain_replication(n)

SpecJoin == InitJoin /\ [][NextJoin]_vars

\* ---------------------------------------------- key handoff (SpecHandoff)

\* A node alone in its ring serves puts at any time while a second process
\* joins through it and both stabilize; the key transfer that notify spawns
\* is delivered and acknowledged between the puts, or fails because the
\* joiner was killed.
InitHandoff ==
    /\ \E a \in Nodes : StableInit({a})
    /\ hashOf \in HashOver(Keys)

NextHandoff ==
    \/ \E n \in Nodes, k \in Keys, v \in Vals : put(n, k, v)
    \/ \E n \in Nodes, m \in Nodes : hist.joined = {} /\ join(n, m)
    \/ \E n \in Nodes : stabilize(n)
    \/ \E t \in tasks : replicate(t)
    \/ \E t \in tasks : transfer_deliver(t)
    \/ \E t \in tasks : transfer_ack(t)
    \/ \E n \in hist.joined : crash(n)

SpecHandoff == InitHandoff /\ [][NextHandoff]_vars

\* --------------------------------------------------- leave (SpecLeave)

\* A ring in its steady state serves puts while one node is asked to leave:
\* its transfer to the successor and its exit interleave with the puts and
\* the replicate tasks.
NextLeave ==
    \/ \E n \in Nodes, k \in Keys, v \in Vals : put(n, k, v)
    \/ \E t \in tasks : replicate(t)
    \/ \E n \in Nodes : maintain_replication(n)
    \/ \E n \in Nodes : leave_network(n)
    \/ \E t \in tasks : leave_transfer(t)
    \/ \E n \in Nodes : leave_exit(n)

SpecLeave == InitStore /\ [][NextLeave]_vars

\* --------------------------------------------------- crash (SpecCrash)

\* A ring of two or three nodes in its steady state holds a replicated pair;
\* one node is killed, and the survivors keep running stabilize,
\* check_predecessor and maintain_replication and serve gets.  Finger tables
\* keep the entries they had when the node was killed.
InitCrash ==
    /\ hashOf \in HashOver(Keys)
    /\ \E M \in {S \in SUBSET Nodes : Cardinality(S) >= 2} :
          \E v \in Vals : ReplicatedInit(M, v, Bootstrap)

NextCrash ==
    \/ \E n \in Nodes : crash(n)
    \/ \E n \in Nodes : hist.crashed # {} /\ stabilize(n)
    \/ \E n \in Nodes : hist.crashed # {} /\ check_predecessor(n)
    \/ \E n \in Nodes : hist.crashed # {} /\ maintain_replication(n)
    \/ \E t \in tasks : replicate(t)
    \/ \E t \in tasks : transfer_deliver(t)
    \/ \E t \in tasks : transfer_ack(t)
    \/ \E n \in Nodes, k \in Keys : hist.crashed # {} /\ get(n, k)

SpecCrash == InitCrash /\ [][NextCrash]_vars

\* ------------------------------------------- routing under churn (SpecRoute)

\* A ring of two or three nodes in its steady state serves find_successor
\* requests while a node is killed, a new process joins (its finger table
\* still as constructed) and fix_fingers runs; no node has run stabilize
\* since, so successor lists and fingers may name the killed node.
InitRoute ==
    /\ \E M \in {S \in SUBSET Nodes : Cardinality(S) >= 2} : StableInit(M)
    /\ hashOf = [k \in AllKeys |-> 0]

NextRoute ==
    \/ \E n \in Nodes : crash(n)
    \/ \E n \in Nodes, m \in Nodes : join(n, m)
    \/ \E n \in Nodes, i \in 0 .. (FINGER_TABLE_SIZE - 1) : fix_fingers(n, i)
    \/ \E n \in Nodes, id \in Ids : lookup(n, id)

SpecRoute == InitRoute /\ [][NextRoute]_vars

\* ------------------------------------------ a ring that grows (SpecGrow)

\* The ring of the three nodes of Nodes in its steady state after a put of
\* each key has been served and replicated; then the fourth process joins
\* through any member, all nodes run whole rounds of stabilize,
\* check_predecessor and maintain_replication, and the transfers and
\* replicate tasks are served in any order.
InitGrow ==
    /\ hashOf \in HashOver(Keys)
    /\ \E v \in Vals : ReplicatedInit(Nodes, v, Bootstrap)

NextGrow ==
    \/ \E n \in Procs, m \in Procs : join(n, m)
    \/ \E n \in Procs : stabilize(n)
    \/ \E n \in Procs : check_predecessor(n)
    \/ \E n \in Procs : maintain_replication(n)
    \/ \E t \in tasks : replicate(t)
    \/ \E t \in tasks : transfer_deliver(t)
    \/ \E t \in tasks : transfer_ack(t)

SpecGrow == InitGrow /\ [][NextGrow]_vars

\* --------------------------------------- recovery (SpecRecover)

\* The loop of main.rs in its order: a round of stabilize (pc idle), then
\* fix_fingers of a random finger, then check_predecessor.
loop_stabilize(n) == stabilize_then(n, "fix_fingers")

loop_fix_fingers(n, i) == fix_fingers_at(n, i, "fix_fingers", "check_predecessor")

loop_check_predecessor(n) == check_predecessor_at(n, "check_predecessor", Idle)

\* A ring of two or three nodes in its steady state; one node is killed at
\* any moment and the survivors keep running their loops.
InitRecover ==
    /\ \E M \in {S \in SUBSET Nodes : Cardinality(S) >= 2} : StableInit(M)
    /\ hashOf = [k \in AllKeys |-> 0]

NextRecover ==
    \/ \E n \in Nodes : crash(n)
    \/ \E n \in Nodes : loop_stabilize(n)
    \/ \E n \in Nodes, i \in 0 .. (FINGER_TABLE_SIZE - 1) : loop_fix_fingers(n, i)
    \/ \E n \in Nodes : loop_check_predecessor(n)

SpecRecover == InitRecover /\ [][NextRecover]_vars

\* The loop of every running node keeps going.
RecoverFairness ==
    \A n \in Nodes :
        /\ WF_vars(loop_stabilize(n))
        /\ WF_vars(\E i \in 0 .. (FINGER_TABLE_SIZE - 1) : loop_fix_fingers(n, i))
        /\ WF_vars(loop_check_predecessor(n))

FairRecover == SpecRecover /\ RecoverFairness

\* ------------------------------------- join after a failure (SpecRejoin)

\* The ring of the three nodes of Nodes in its steady state; one node is
\* killed, the survivors run their loops, and then the fourth process joins
\* through a survivor.  The scenario ends when join has returned.
InitRejoin ==
    /\ StableInit(Nodes)
    /\ hashOf = [k \in AllKeys |-> 0]

NextRejoin ==
    \/ \E n \in Procs : crash(n)
    \/ \E n \in Procs : hist.joined = {} /\ loop_stabilize(n)
    \/ \E n \in Procs, i \in 0 .. (FINGER_TABLE_SIZE - 1) :
          hist.joined = {} /\ loop_fix_fingers(n, i)
    \/ \E n \in Procs : hist.joined = {} /\ loop_check_predecessor(n)
    \/ \E n \in Procs, m \in Procs : hist.crashed # {} /\ join(n, m)

SpecRejoin == InitRejoin /\ [][NextRejoin]_vars

\* ------------------------------------------------- state locks (SpecLocks)

\* The ping RPC check_predecessor of node n has sent to p and not yet seen
\* answered.  lock: the lock on its own state n holds while it waits.
PingCall(n, p) == [type |-> "ping", from |-> n, to |-> p, lock |-> "write"]

\* Node n holds the write lock on its state (only check_predecessor keeps it
\* across steps).
WriteLocked(n) == \E t \in tasks : t.type = "ping" /\ t.from = n

\* A handler that does not wait for the lock.
unlocked(n) == TRUE

\* A handler of node n that reads or writes the state of n can take the lock.
lock_free(n) == ~WriteLocked(n)

\* The RPC n sends to c does not have to wait: c is gone (the connection
\* fails at once), or the handler of c gets the lock of c.
served(c) == Reachable(c) => lock_free(c)

\* A ping handler that takes the lock of its node.
ping_takes_lock(p) == TRUE

\* Chord::ping answers without touching the state of the node.
ping_waits(p) == FALSE

\* check_predecessor takes the write lock; with no predecessor it returns,
\* else it connects to the predecessor and pings it, keeping the lock.
check_predecessor_lock(n) ==
    /\ Reachable(n)
    /\ pc[n] = "check_predecessor"
    /\ lock_free(n)
    /\ IF predecessor[n] = None
       THEN /\ pc' = [pc EXCEPT ![n] = Idle]
            /\ UNCHANGED tasks
       ELSE /\ pc' = [pc EXCEPT ![n] = "pinging"]
            /\ tasks' = tasks \cup {PingCall(n, predecessor[n])}
    /\ resp' = NoResp
    /\ UNCHANGED <<status, predecessor, successor_list, finger_table, store, hashOf, hist>>

\* The connect or the ping of t has returned: on an error the predecessor is
\* cleared; then the lock is released.
check_predecessor_unlock(t) ==
    /\ t \in tasks
    /\ t.type = "ping"
    /\ Reachable(t.from)
    /\ (Reachable(t.to) /\ ping_waits(t.to)) => lock_free(t.to)
    /\ IF Reachable(t.to)
       THEN UNCHANGED predecessor
       ELSE predecessor' = [predecessor EXCEPT ![t.from] = None]
    /\ tasks' = tasks \ {t}
    /\ pc' = [pc EXCEPT ![t.from] = Idle]
    /\ resp' = NoResp
    /\ UNCHANGED <<status, successor_list, finger_table, store, hashOf, hist>>

\* The three RPCs of stabilize, each served once the callee's handler has
\* the lock of the callee; after stabilize the loop calls check_predecessor.
locked_get_predecessor(n) ==
    /\ served(Head(successor_list[n]))
    /\ stabilize_get_predecessor_then(n, "check_predecessor")

locked_notify(n) ==
    /\ served(Head(successor_list[n]))
    /\ stabilize_notify(n)

locked_update_successor_list(n) ==
    /\ served(Head(successor_list[n]))
    /\ update_successor_list_then(n, "check_predecessor")

\* join, its find_successor served by m under the lock of m.
locked_join(n, m) ==
    /\ served(m)
    /\ join(n, m)

\* A ring of one or two nodes in its steady state: the nodes run stabilize
\* and check_predecessor in the order of their loop, one node is killed at
\* any moment and one new process joins.
InitLocks ==
    /\ \E M \in {S \in SUBSET Nodes : Cardinality(S) \in {1, 2}} : StableInit(M)
    /\ hashOf = [k \in AllKeys |-> 0]

NextLocks ==
    \/ \E n \in Nodes : crash(n)
    \/ \E n \in Nodes, m \in Nodes : hist.joined = {} /\ locked_join(n, m)
    \/ \E n \in Nodes : locked_get_predecessor(n)
    \/ \E n \in Nodes : locked_notify(n)
    \/ \E n \in Nodes : locked_update_successor_list(n)
    \/ \E n \in Nodes : check_predecessor_lock(n)
    \/ \E t \in tasks : check_predecessor_unlock(t)

SpecLocks == InitLocks /\ [][NextLocks]_vars

\* ----------------------------------- overlapping stabilize calls (SpecOverlap)

\* Node::stabilize is public and takes &self: the loop of main.rs and the
\* tests call it, and nothing keeps two calls on one node apart.  Callers
\* names the calls that may be in progress on a node at the same time.
MaxCallers == 2

Callers == 1 .. MaxCallers

\* A call of stabilize on node n by caller c that has read successor s and
\* awaits get_predecessor.
StabilizeCall(n, c, s) ==
    [type |-> "stabilize", node |-> n, caller |-> c, successor |-> s,
     phase |-> "called", x |-> None, wrote |-> FALSE]

\* The stabilize calls in progress.
StabilizeCalls == {t \in tasks : t.type = "stabilize"}

\* An adoption that does not look at the list again.
unchecked(n, s) == TRUE

\* The successor read before the RPC is still the head of the list.
head_unchanged(n, s) == Head(successor_list[n]) = s

\* stabilize starts: the successor is read under the read lock.
stabilize_read(n, c) ==
    /\ Reachable(n)
    /\ \A t \in StabilizeCalls : ~(t.node = n /\ t.caller = c)
    /\ tasks' = tasks \cup {StabilizeCall(n, c, Head(successor_list[n]))}
    /\ resp' = NoResp
    /\ UNCHANGED <<status, predecessor, successor_list, finger_table, store, pc, hashOf, hist>>

\* get_predecessor returns to call t: the answer is kept, or the successor
\* does not answer and the head of the list is dropped if another entry is
\* left, which ends the call.
stabilize_answer(t) ==
    /\ t \in StabilizeCalls
    /\ t.phase = "called"
    /\ Reachable(t.node)
    /\ IF Reachable(t.successor)
       THEN /\ tasks' = (tasks \ {t}) \cup
                    {[t EXCEPT !.phase = "answered", !.x = predecessor[t.successor]]}
            /\ UNCHANGED successor_list
       ELSE IF can_promote(successor_list[t.node])
            THEN /\ successor_list' = [successor_list EXCEPT ![t.node] = Tail(@)]
                 /\ tasks' = tasks \ {t}
            ELSE /\ tasks' = (tasks \ {t}) \cup {[t EXCEPT !.phase = "notify"]}
                 /\ UNCHANGED successor_list
    /\ resp' = NoResp
    /\ UNCHANGED <<status, predecessor, finger_table, store, pc, hashOf, hist>>

\* Call t adopts the predecessor x of its successor when x lies between the
\* node and the successor and the head of the list is still that successor.
stabilize_adopt(t) ==
    /\ t \in StabilizeCalls
    /\ t.phase = "answered"
    /\ Reachable(t.node)
    /\ LET write == /\ t.x # None
                    /\ is_in_range(t.x, t.node, t.successor)
                    /\ head_unchanged(t.node, t.successor) IN
       /\ IF write
          THEN successor_list' = [successor_list EXCEPT ![t.node][1] = t.x]
          ELSE UNCHANGED successor_list
       /\ tasks' = (tasks \ {t}) \cup {[t EXCEPT !.phase = "notify", !.wrote = write]}
    /\ resp' = NoResp
    /\ UNCHANGED <<status, predecessor, finger_table, store, pc, hashOf, hist>>

\* The rest of call t: the successor is read again and notified, and the
\* list is refreshed from the successor's list.
stabilize_finish(t) ==
    /\ t \in StabilizeCalls
    /\ t.phase = "notify"
    /\ Reachable(t.node)
    /\ LET n == t.node
           successor == Head(successor_list[n]) IN
       IF Reachable(successor)
       THEN /\ predecessor' = [predecessor EXCEPT ![successor] = notify_predecessor(successor, n)]
            /\ tasks' = (tasks \ {t}) \cup notify_tasks(successor, n)
            /\ successor_list' = [successor_list EXCEPT ![n] =
                   new_list(successor, successor_list[successor])]
       ELSE /\ tasks' = tasks \ {t}
            /\ UNCHANGED <<predecessor, successor_list>>
    /\ resp' = NoResp
    /\ UNCHANGED <<status, finger_table, store, pc, hashOf, hist>>

\* Processes join the bootstrap node and every running node calls stabilize
\* in its loop, while a second caller calls stabilize on the bootstrap node.
NextOverlap ==
    \/ \E n \in Nodes : join(n, Bootstrap)
    \/ \E n \in Nodes, c \in Callers : (c = 1 \/ n = Bootstrap) /\ stabilize_read(n, c)
    \/ \E t \in tasks : stabilize_answer(t)
    \/ \E t \in tasks : stabilize_adopt(t)
    \/ \E t \in tasks : stabilize_finish(t)

SpecOverlap == Init /\ [][NextOverlap]_vars

\* ----------------------------------------- joining a ring (SpecEnter)

\* A ring in its steady state: processes are started with --join naming any
\* process as contact, one node is killed at any moment, and the running
\* nodes run fix_fingers.  No node has run stabilize since, so successor
\* lists and fingers may name the killed node.
NextEnter ==
    \/ \E n \in Nodes : crash(n)
    \/ \E n \in Nodes, m \in Nodes : join(n, m)
    \/ \E n \in Nodes, m \in Nodes : join_error(n, m)
    \/ \E n \in Nodes, i \in 0 .. (FINGER_TABLE_SIZE - 1) : fix_fingers(n, i)

SpecEnter == InitLookup /\ [][NextEnter]_vars

\* ------------------------------------- fingers of a new ring (SpecFingers)

\* The bootstrap node serves alone; one other process joins through it, and
\* both run their loops in the order of main.rs, so the finger tables are
\* filled from their initial entries while the ring forms.
NextFingers ==
    \/ \E n \in Nodes : hist.joined = {} /\ join(n, Bootstrap)
    \/ \E n \in Nodes : loop_stabilize(n)
    \/ \E n \in Nodes, i \in 0 .. (FINGER_TABLE_SIZE - 1) : loop_fix_fingers(n, i)
    \/ \E n \in Nodes : loop_check_predecessor(n)

SpecFingers == Init /\ [][NextFingers]_vars

\* ------------------------------------- requests after a crash (SpecFailover)

\* A ring in its steady state, of any membership and with the key hashed to
\* any identifier, serves put and get while one node is killed at any
\* moment and the replicate tasks are delivered in any order; no node has
\* run its loop since the crash.
NextFailover ==
    \/ \E n \in Nodes : crash(n)
    \/ \E n \in Nodes, k \in Keys, v \in Vals : put(n, k, v)
    \/ \E n \in Nodes, k \in Keys : get(n, k)
    \/ \E t \in tasks : replicate(t)

SpecFailover == InitStore /\ [][NextFailover]_vars

\* ----------------------------------- leaving a failing ring (SpecDepart)

\* A ring in its steady state, of any membership, holds a replicated pair;
\* one node is asked to leave and one node is killed, in any order.
InitDepart ==
    /\ hashOf \in HashOver(Keys)
    /\ \E M \in (SUBSET Nodes) \ {{}} :
          \E v \in Vals, e \in M : ReplicatedInit(M, v, e)

NextDepart ==
    \/ \E n \in Nodes : crash(n)
    \/ \E n \in Nodes : leave_network(n)
    \/ \E t \in tasks : leave_transfer(t)
    \/ \E n \in Nodes : leave_exit(n)

SpecDepart == InitDepart /\ [][NextDepart]_vars

\* The transfer_keys RPC of a leaver returns, with a response or with a
\* connection error, and the exit task spawned by the leave handler runs
\* after its delay.
DepartFairness ==
    /\ WF_vars(\E t \in tasks : leave_transfer(t))
    /\ \A n \in Nodes : WF_vars(leave_exit(n))

FairDepart == SpecDepart /\ DepartFairness

\* ------------------------------------------- range tests (SpecRange)

\* A call of is_in_range and of is_in_range_inclusive with any identifiers;
\* the response records the arguments and both results.
range_call(id, start, end) ==
    /\ resp' = [op |-> "is_in_range", id |-> id, start |-> start, end |-> end,
                open |-> is_in_range(id, start, end),
                inclusive |-> is_in_range_inclusive(id, start, end)]
    /\ UNCHANGED <<status, predecessor, successor_list, finger_table, store, pc,
                   tasks, hashOf, hist>>

NextRange == \E id \in Ids, start \in Ids, end \in Ids : range_call(id, start, end)

SpecRange == Init /\ [][NextRange]_vars

\* ============================================================ properties

\* ------------------------------------------------------------------- C1

Hop(n) == Head(successor_list[n])

RECURSIVE Walk(_, _)
\* The nodes reached from n by 1, 2, ..., k hops along successor_list[0].
Walk(n, k) == IF k = 0 THEN <<>> ELSE <<Hop(n)>> \o Walk(Hop(n), k - 1)

\* From every running node, N hops along successor_list[0] visit each of the
\* N running nodes exactly once and end at the start.
RingClosed ==
    \A n \in Members :
        LET N == Cardinality(Members)
            w == Walk(n, N) IN
        /\ Range(w) = Members
        /\ w[N] = n

\* C1: in a failure-free run in which nodes join through a member and every
\* node keeps running stabilize, the ring eventually closes (N hops along
\* successor_list[0] from any node visit each of the N nodes once and return
\* to the start) and stays closed.
C1_RingClosure == <>[]RingClosed

\* All processes have joined and the ring of the three is closed.
C1_Witness ==
    /\ hist.joined = Nodes \ {Bootstrap}
    /\ Members = Nodes
    /\ RingClosed
    /\ \A n \in Nodes : pc[n] = Idle

\* ------------------------------------------------------------------- C2

C3_RoutedPutGet ==
    (resp.op = "get" /\ hist.last[resp.key] # NoVal)
        => (resp.ok /\ resp.found /\ resp.value = hist.last[resp.key])

\* ------------------------------------------------------------------- C4

\* C4: after a put of (k, v) has succeeded and has been replicated, if a
\* single node (possibly the primary of k) crashes, then once the survivors
\* have stabilized a get of k through any surviving node returns found = true
\* with value v.
C4_Durability ==
    (resp.op = "get" /\ hist.crashed # {} /\ RingStable)
        => (resp.ok /\ resp.found /\ resp.value = hist.last[resp.key])

\* The primary of the key has crashed, the two survivors have stabilized and
\* a get through the node that is not the new primary finds the value.
C4_Witness ==
    /\ resp.op = "get"
    /\ hist.crashed # {}
    /\ Cardinality(Members) = 2
    /\ RingStable
    /\ Owner(hashOf[resp.key], Nodes) \in hist.crashed
    /\ resp.via # resp.at
    /\ resp.found
    /\ resp.value = hist.last[resp.key]

\* ------------------------------------------------------------------- C5

\* The primary of key k in the running ring.
Primary(k) == Owner(hashOf[k], Members)

\* The nodes that hold the replicas of k: the next REPLICATION_COUNT
\* successors of the primary, or every other node in a smaller ring.
ReplicaNodes(k) ==
    Range(SuccessorsFrom(Primary(k), Members, REPLICATION_COUNT)) \ {Primary(k)}

Covered(k, v) == \A n \in ReplicaNodes(k) : store[n][k] = v

\* C5: after put(k, v) is stored at the primary in a stable ring, eventually
\* each of the next R = 2 successors of the primary (every other node in a
\* ring of fewer than R + 1 nodes) holds k with value v, unless a later put
\* replaced v first.
C5_ReplicaCoverage ==
    \A k \in Keys, v \in Vals :
        (resp.op = "put" /\ resp.ok /\ resp.key = k /\ hist.last[k] = v)
            ~> (Covered(k, v) \/ hist.last[k] # v)

\* After two puts both replicas of a ring of three hold the value put last,
\* and nothing is in flight.
C5_Witness ==
    /\ Members = Nodes
    /\ tasks = {}
    /\ hist.puts = 2
    /\ \E k \in Keys :
          /\ hist.last[k] # NoVal
          /\ Cardinality(ReplicaNodes(k)) = REPLICATION_COUNT
          /\ Covered(k, hist.last[k])

\* ------------------------------------------------------------------- C6

\* The node that joined (none while nobody has).
Joiner == CHOOSE b \in hist.joined : TRUE

\* The owner of k before the join.
OldOwner(k) == Owner(hashOf[k], Members \ hist.joined)

\* A node B has joined and taken over key k, which the previous owner held;
\* the ring has stabilized and the transfer has completed.
JoinSettled(k) ==
    /\ hist.joined # {}
    /\ hist.last[k] # NoVal
    /\ Primary(k) = Joiner
    /\ RingStable
    /\ \A n \in Members : pc[n] = Idle
    /\ \A t \in tasks : t.type # "transfer"

\* The acknowledged transfer removes the keys sent from the sender's store.
AckRemoves ==
    \A t \in tasks :
        (t.type = "transfer" /\ t.phase = "acked" /\ t \notin tasks')
            => \A k \in Keys : t.kvs[k] # NoVal => store'[t.from][k] = NoVal

LeaveServed(t) ==
    /\ t \in tasks
    /\ t.type = "leave"
    /\ t.phase = "sent"
    /\ [t EXCEPT !.phase = "acked"] \in tasks'

\* C7: when a node whose successor_list[0] is a reachable node other than
\* itself performs leave, then once its transfer has been served every key
\* the leaver held is in that successor's store with the leaver's value.
C7_LeavePreservesKeys ==
    [][\A n \in Nodes, to \in Nodes, kvs \in [AllKeys -> Vals \cup {NoVal}] :
          LeaveServed([type |-> "leave", from |-> n, to |-> to,
                       phase |-> "sent", kvs |-> kvs])
              => \A k \in Keys : kvs[k] # NoVal => store'[to][k] = kvs[k]]_vars

\* A leaver's transfer has been served in a ring of three: the successor
\* holds the leaver's value of a key, which is not the value put last.
C7_Witness ==
    \E t \in tasks :
        /\ t.type = "leave"
        /\ t.phase = "acked"
        /\ status[t.from] = "leaving"
        /\ Cardinality(Members) = 3
        /\ \E k \in Keys :
              /\ t.kvs[k] # NoVal
              /\ store[t.to][k] = t.kvs[k]
              /\ t.kvs[k] # hist.last[k]

\* ------------------------------------------------------------------- C8

\* C8: a get of k served by k's primary itself returns the value of the
\* latest put the primary applied, and never an earlier one again, whatever
\* the order in which the replicate messages are delivered.
C8_ReadYourWrites ==
    (resp.op = "get" /\ resp.via = resp.at /\ hist.puts >= 2
        /\ hist.last[resp.key] # NoVal)
        => resp.value = hist.last[resp.key]

\* ------------------------------------------------------------------- C9

HoldersHoldLast ==
    \A k \in Keys, n \in Members :
        store[n][k] # NoVal => store[n][k] = hist.last[k]

\* C9: once the puts have stopped in a stable ring, eventually every node
\* holding k holds the value of the last put the primary applied, and this
\* stays so, whatever the order of delivery of the messages.
C9_ReplicaConvergence == <>[]HoldersHoldLast

\* ------------------------------------------------------------------ C10

\* C10: when every put of k carried the same value v, through whichever
\* entry nodes and however often, a get of k through any node returns
\* found = true with value v.
C10_PutIdempotent ==
    \A v \in Vals :
        (resp.op = "get" /\ hist.vals[resp.key] = {v})
            => (resp.ok /\ resp.found /\ resp.value = v)

\* The same pair was put twice through two entry nodes and is read through
\* the third node of the ring.
C10_Witness ==
    /\ resp.op = "get"
    /\ hist.puts = 2
    /\ Cardinality(hist.entries) = 2
    /\ resp.via \notin hist.entries
    /\ Cardinality(hist.vals[resp.key]) = 1
    /\ resp.found
    /\ resp.value \in hist.vals[resp.key]

\* ------------------------------------------------------------------ C11

\* The nodes find_successor_internal of n may forward a request for id to.
HopsOf(n, id) ==
    (Range(get_closest_candidates(n, id)) \cup Range(successor_list[n])) \ {n}

\* The answers of the hops of n that are running and return a node.
HopAnswers(n, id) ==
    {find_successor_internal(c, id, {n}) : c \in {h \in HopsOf(n, id) : Reachable(h)}}
        \cap Procs

\* C11: for a target outside (self.id, successor.id], find_successor returns
\* Unavailable exactly when no finger candidate and no successor-list entry
\* answers, and a NodeInfo it returns is the answer of a hop that was reached.
C11_UnavailableIffNoHop ==
    (/\ resp.op = "find_successor"
     /\ ~is_in_range_inclusive(resp.id, resp.via, Head(successor_list[resp.via])))
        => /\ (resp.node = Unavailable) <=> (HopAnswers(resp.via, resp.id) = {})
           /\ IsNode(resp.node) => resp.node \in HopAnswers(resp.via, resp.id)

\* ------------------------------------------------------------------ C12

\* The ring has stabilized: successors, predecessors and successor lists are
\* those of the running nodes, no loop activity is under way and no task or
\* RPC is in flight.
Quiescent ==
    /\ RingStable
    /\ \A n \in Members :
          /\ successor_list[n] = SuccessorsFrom(n, Members, SUCCESSOR_LIST_LIMIT)
          /\ pc[n] = Idle
    /\ tasks = {}

\* C12: once the ring has stabilized after joins and puts, a node that holds
\* key k is the owner of k or one of the R = 2 nearest successors of the owner.
C12_ReplicaPlacement ==
    Quiescent =>
        \A k \in Keys, n \in Members :
            store[n][k] # NoVal => n \in Holders(hashOf[k], Members)

\* ------------------------------------------------------------------ C13

\* No survivor points at the killed node, the successor pointers of the
\* survivors form one cycle, and a put or get of any key sent to any survivor
\* is routed to a running node.
Recovered ==
    /\ \A n \in Members : Hop(n) \notin hist.crashed /\ predecessor[n] \notin hist.crashed
    /\ RingClosed
    /\ \A n \in Members, id \in Ids :
          IsNode(route(n, id, {})) /\ Reachable(route(n, id, {}))

\* C13: after a single node crashed, under fair scheduling of the survivors'
\* stabilize and check_predecessor, eventually no survivor has the crashed
\* node as successor_list[0] or as predecessor, the successor pointers of the
\* survivors form one cycle and put/get through the survivors succeed.
C13_CrashRecovery == <>[](hist.crashed # {} => Recovered)

\* ------------------------------------------------------------------ C14

\* The processes that have not been started yet.
NewProcs == {n \in Procs : status[n] = "new"}

\* Node m still names the killed node in its finger table or successor list.
NamesCrashed(m) ==
    \/ \E i \in 0 .. (FINGER_TABLE_SIZE - 1) : finger_table[m][i] \in hist.crashed
    \/ Range(successor_list[m]) \cap hist.crashed # {}

\* The survivors have run stabilization rounds: their successors and
\* predecessors are running nodes again.
SurvivorsStabilized ==
    \A n \in Members : Reachable(Hop(n)) /\ predecessor[n] \in Members

\* C14: after a member crashed and the survivors have run stabilization
\* rounds, find_successor for the id of a new node, asked of any survivor,
\* returns a node and not an error, also when the survivor's finger table or
\* successor list still names the crashed node.
C14_JoinAfterFailure ==
    (hist.crashed # {} /\ SurvivorsStabilized)
        => \A m \in Members, n \in NewProcs : IsNode(find_successor(m, n))

\* The new process has joined through a survivor after the crash while every
\* survivor still names the killed node, and its successor is a running node.
C14_Witness ==
    /\ hist.crashed # {}
    /\ hist.joined # {}
    /\ \A n \in hist.joined : Reachable(n) /\ Hop(n) \in Members \ hist.joined
    /\ \A m \in Members \ hist.joined :
          /\ NamesCrashed(m)
          /\ Reachable(Hop(m))
          /\ predecessor[m] \in Members

\* ------------------------------------------------------------------ C15

\* Every running node has a predecessor, and it is the one running node
\* whose successor_list[0] is that node.
PredecessorsMatch ==
    \A n \in Members :
        /\ predecessor[n] \in Members
        /\ \A m \in Members : (Hop(m) = n) <=> (m = predecessor[n])

\* C15: once a ring of N >= 2 nodes has stabilized with no churn, every
\* node's predecessor is present and is exactly the node whose
\* successor_list[0] is that node.
C15_PredecessorAfterStabilization ==
    <>[](Cardinality(Members) >= 2 => PredecessorsMatch)

\* The ring of three has stabilized: every node's predecessor is the node two
\* hops along the successors away, and the node's own successor's successor.
C15_Witness ==
    /\ Members = Nodes
    /\ PredecessorsMatch
    /\ \A n \in Nodes :
          /\ pc[n] = Idle
          /\ predecessor[n] = Hop(Hop(n))
          /\ predecessor[n] # n
          /\ Hop(n) # predecessor[n]

\* ------------------------------------------------------------------ C16

\* C16: in every reachable state the successor_list of every node has at
\* least 1 and at most L = 5 entries, so successor_list[0] can always be read.
C16_SuccessorListBounds ==
    \A n \in Procs :
        Len(successor_list[n]) >= 1 /\ Len(successor_list[n]) <= SUCCESSOR_LIST_LIMIT

\* After a crash a survivor's list has been shortened by dropping the dead
\* head, and a process that joined since holds the one entry join wrote.
C16_Witness ==
    /\ hist.crashed # {}
    /\ hist.joined # {}
    /\ \A n \in hist.joined : Len(successor_list[n]) = 1 /\ Hop(n) # n
    /\ \E n \in Members \ hist.joined :
          /\ Len(successor_list[n]) < SUCCESSOR_LIST_LIMIT
          /\ Hop(n) \notin hist.crashed

\* ------------------------------------------------------------------ C17

\* The keys held by at least one node of the ring (the union of the nodes'
\* stored_keys).
stored_keys == {k \in AllKeys : \E n \in Procs : store[n][k] # NoVal}

\* The keys the clients have put with success so far.
put_keys == {k \in AllKeys : hist.last[k] # NoVal}

\* C17: in a stable ring without failures, after puts of a set of keys
\* through various nodes, the union of the key sets of all nodes' stores is
\* exactly the set of the keys put: none is lost and none is invented.
C17_NoKeyLostOrInvented == stored_keys = put_keys

\* Two distinct keys with different primaries have been put through two
\* different nodes and all their replicas have been written.
C17_Witness ==
    /\ put_keys = AllKeys
    /\ stored_keys = AllKeys
    /\ Cardinality(hist.entries) = 2
    /\ tasks = {}
    /\ \E a \in AllKeys, b \in AllKeys :
          Owner(hashOf[a], Nodes) # Owner(hashOf[b], Nodes)

\* ------------------------------------------------------------------ C18

\* The step delivers the replicate request t to its live target.
ReplicateDelivered(t) ==
    /\ t.type = "replicate"
    /\ Reachable(t.to)
    /\ t \notin tasks'

\* The step delivers the transfer_keys request t to its live target.
TransferDelivered(t) ==
    /\ t.type \in {"transfer", "leave"}
    /\ t.phase = "sent"
    /\ Reachable(t.to)
    /\ t \notin tasks'

\* The step is the notify of node n served by its live successor.
NotifyDelivered(n) ==
    /\ pc[n] = "notify"
    /\ pc'[n] # "notify"
    /\ Reachable(Head(successor_list[n]))

\* C18: delivering the same replicate, transfer_keys or notify request once
\* more right after it was served leaves the store and the predecessor of the
\* node as the first delivery left them, and the repeated notify spawns no
\* key transfer.
C18_HandlerIdempotence ==
    [][/\ \A t \in tasks : ReplicateDelivered(t) =>
             insert(store[t.to], t.key, t.val)' = store'[t.to]
       /\ \A t \in tasks : TransferDelivered(t) =>
             transfer_keys(store[t.to], t.kvs)' = store'[t.to]
       /\ \A n \in Nodes : NotifyDelivered(n) =>
             LET s == Head(successor_list[n]) IN
             /\ notify_predecessor(s, n)' = predecessor'[s]
             /\ notify_tasks(s, n)' = {}]_vars

\* A notify was adopted and spawned a key transfer, the transfer and a
\* replicate request have been served, and the sender still holds the keys.
C18_Witness ==
    /\ \E t \in tasks :
          /\ t.type = "transfer"
          /\ t.phase = "acked"
          /\ predecessor[t.from] = t.to
          /\ keys_to_transfer(t.from, t.to) # {}
          /\ \E k \in Keys : store[t.to][k] = t.kvs[k] /\ t.kvs[k] # NoVal
    /\ hist.puts > 0

\* ------------------------------------------------------------------ C19

\* The transfers spawned by notify that are still in progress.
Handoffs == {t \in tasks : t.type = "transfer"}

\* The keys transfer t hands to the new predecessor.
Handed(t) == {k \in AllKeys : t.kvs[k] # NoVal}

\* The step ends transfer t without an acknowledgement: the RPC failed.
TransferFailed(t) ==
    /\ t.type = "transfer"
    /\ t.phase = "sent"
    /\ tasks' = tasks \ {t}

AckRemoval(t) ==
    /\ t.type = "transfer"
    /\ t.phase = "acked"
    /\ Reachable(t.from)
    /\ tasks' = tasks \ {t}

\* C20: without failures, when the removal after an acknowledged transfer
\* deletes a key whose value at this node was written after the snapshot of
\* the transfer, the node that now owns the key holds that value.
C20_PutSurvivesJoin ==
    [][\A t \in Handoffs : \A k \in Handed(t) :
          (/\ hist.crashed = {}
           /\ AckRemoval(t)
           /\ store[t.from][k] # t.kvs[k]
           /\ store'[t.from][k] = NoVal)
          => store'[Primary(k)][k] = store[t.from][k]]_vars

\* ------------------------------------------------------------------ C30

\* The step is a put answered with success, and owner is the node that
\* stored the pair.
PutStoredAt(owner) ==
    /\ resp'.op = "put"
    /\ resp'.ok
    /\ owner = route(resp'.via, hashOf[resp'.key], {})

\* C30: the replicate RPCs a put spawns at the owner go to entries of the
\* successor list other than the owner itself: a node never sends a
\* replicate to itself.
C30_ReplicationExcludesSelf ==
    [][\A owner \in Nodes : PutStoredAt(owner) =>
          \A t \in tasks' \ tasks : t.type = "replicate" => t.to # owner]_vars

\* ------------------------------------------------------------------ C28

\* C28: a find_successor request received by any live node, for any
\* identifier, is never forwarded to a node that is already waiting for its
\* reply: it ends with a node or with Unavailable.
C28_NoRoutingLoop ==
    \A n \in Members, id \in Ids : find_successor(n, id) # Hang

\* ------------------------------------------------------------------ C29

\* C29: while no node has failed, a put or get of any key received by any
\* node is never forwarded back to a node that already forwarded it, so it
\* ends with a response.
C29_NoForwardingCycle ==
    hist.crashed = {} =>
        \A n \in Members, k \in Keys : route(n, hashOf[k], {}) # Hang

\* ------------------------------------------------------------------ C24

\* Clockwise distance from a to b, a full turn when they are the same.
Gap(a, b) == IF a = b THEN RingSize ELSE Dist(a, b)

\* x lies in the open interval (a, b) of the ring.
InOpenInterval(x, a, b) == x # a /\ Gap(a, x) < Gap(a, b)

\* C24: notify(p) served by s sets the predecessor of s to p iff s has no
\* predecessor or p lies in the open interval (predecessor, s); otherwise the
\* predecessor and the store of s are unchanged and no transfer is spawned.
\* Hence a step that replaces one predecessor by another moves it closer to
\* the node.
C24_NotifyAdoptionRule ==
    [][/\ \A n \in Nodes : NotifyDelivered(n) =>
             LET s == Head(successor_list[n])
                 adopt == \/ predecessor[s] = None
                          \/ InOpenInterval(n, predecessor[s], s)
             IN /\ adopt => predecessor'[s] = n
                /\ ~adopt => /\ predecessor'[s] = predecessor[s]
                              /\ tasks' = tasks
                /\ store' = store
       /\ \A s \in Nodes :
             (/\ predecessor[s] # None
              /\ predecessor'[s] # None
              /\ predecessor'[s] # predecessor[s])
             => Gap(predecessor'[s], s) < Gap(predecessor[s], s)]_vars

\* With the three nodes running, a node has just notified another node whose
\* predecessor is a third node closer to it than the caller: the notify was
\* refused, or it was adopted and then replaced by the closer one.
C24_Witness ==
    /\ Members = Nodes
    /\ \E n \in Nodes :
          /\ pc[n] = "update_list"
          /\ Hop(n) # n
          /\ predecessor[Hop(n)] # n
          /\ InOpenInterval(predecessor[Hop(n)], n, Hop(n))

\* ------------------------------------------------------------------ C23

\* C23: no step of a running node replaces a live first successor by a node
\* that has crashed, and after a crash no running node is left with a
\* successor list whose only entry is the crashed node.
C23_NoCrashedSuccessorAdopted ==
    [][/\ \A n \in Members :
             (/\ Hop(n)' # Hop(n)
              /\ Reachable(Hop(n)))
             => Hop(n)' \notin hist.crashed
       /\ \A n \in Members :
             ~(Len(successor_list[n]) = 1 /\ Hop(n) \in hist.crashed)]_vars

\* ------------------------------------------------------------------ C22

\* The step is the start of a stabilize round of the running node n: its
\* get_predecessor RPC and what the node does with the answer.
StabilizeStarted(n) ==
    /\ Reachable(n)
    /\ pc[n] = Idle
    /\ pc'[n] = "notify" \/ successor_list'[n] # successor_list[n]

\* C22: when get_predecessor on the successor s fails with a transport
\* error, s is removed from the head of successor_list iff the list has more
\* than one entry, and the round then ends without a notify or a refresh of
\* the list (a list of one entry is left as it is); when the answer is
\* NotFound, s stays the head and the round goes on to notify s.
C22_DeadSuccessorHandling ==
    [][\A n \in Nodes : StabilizeStarted(n) =>
          LET s == Hop(n) IN
          /\ (~Reachable(s) /\ Len(successor_list[n]) > 1) =>
                /\ successor_list'[n] = Tail(successor_list[n])
                /\ pc'[n] = Idle
                /\ predecessor' = predecessor
          /\ (~Reachable(s) /\ Len(successor_list[n]) = 1) =>
                successor_list'[n] = successor_list[n]
          /\ (Reachable(s) /\ predecessor[s] = None) =>
                /\ successor_list'[n] = successor_list[n]
                /\ pc'[n] = "notify"]_vars

\* A node dropped its dead successor and promoted the next entry, while
\* another node whose only entry is the dead node still has it.
C22_Witness ==
    /\ hist.crashed # {}
    /\ \E n \in Members : Len(successor_list[n]) = 1 /\ Hop(n) \in hist.crashed
    /\ \E n \in Members :
          /\ Len(successor_list[n]) \in 2 .. (SUCCESSOR_LIST_LIMIT - 1)
          /\ Hop(n) \in Members
          /\ pc[n] = Idle

\* ------------------------------------------------------------------ C25

\* The pings of running nodes that have not returned yet.
Pings == {t \in tasks : t.type = "ping" /\ Reachable(t.from)}

\* The step is the return of ping t to check_predecessor.
PingReturned(t) == t \notin tasks'

\* C25: check_predecessor clears the predecessor iff the connection to or
\* the ping of the current predecessor fails; from the read of the
\* predecessor to the clear no notify changes it, so the predecessor that is
\* cleared is the one that was pinged; with no predecessor it changes nothing.
C25_CheckPredecessorUnderLock ==
    [][/\ \A t \in Pings :
             /\ predecessor[t.from] = t.to
             /\ PingReturned(t) =>
                   /\ predecessor'[t.from] = None <=> ~Reachable(t.to)
                   /\ Reachable(t.to) => predecessor'[t.from] = t.to
       /\ \A n \in Members :
             (pc[n] = "check_predecessor" /\ pc'[n] = Idle) =>
                 predecessor' = predecessor]_vars

\* While a node waits for the ping of its dead predecessor, a node that
\* joined meanwhile is about to notify it and has to wait for the lock.
C25_Witness ==
    \E t \in Pings :
        /\ ~Reachable(t.to)
        /\ \E n \in hist.joined :
              /\ pc[n] = "notify"
              /\ Hop(n) = t.from
              /\ InOpenInterval(n, t.to, t.from)

\* ------------------------------------------------------------------ C26

\* C26: no running node has a remote RPC in progress while it holds the
\* lock on its own state.
C26_NoRpcUnderLock ==
    \A t \in tasks :
        (t.type = "ping" /\ Reachable(t.from)) => t.lock = "none"

\* ------------------------------------------------------------------ C27

\* The nodes whose lock the running node n is waiting for: the callee of the
\* stabilize RPC it is about to send, and the callee of its ping when the
\* ping handler needs the lock.
WaitsFor(n) ==
    {m \in Members :
        /\ WriteLocked(m)
        /\ \/ pc[n] \in {"notify", "update_list"} /\ m = Hop(n)
           \/ \E t \in Pings : t.from = n /\ t.to = m /\ ping_waits(m)}

\* C27: in no reachable state is there a set of running nodes each of which
\* waits for the lock of a node of the set, and every ping sent under the
\* lock of the caller (also a ping of a node to itself) can be answered at
\* once, whatever locks are held.
C27_DeadlockFreedom ==
    /\ \A S \in (SUBSET Members) \ {{}} : \E n \in S : WaitsFor(n) \cap S = {}
    /\ \A t \in Pings : ENABLED check_predecessor_unlock(t)

\* Two nodes that are each other's predecessor ping each other, both holding
\* their locks.
C27_Witness ==
    \E t \in Pings, u \in Pings : t.from = u.to /\ u.from = t.to /\ t.from # t.to

\* ------------------------------------------------------------------ C21

\* The step is the adoption step of stabilize call t.
AdoptionStep(t) ==
    /\ t.phase = "answered"
    /\ Reachable(t.node)
    /\ t \notin tasks'

\* C21: stabilize replaces successor_list[0] by the predecessor x of the
\* successor s it read only if x lies in the open interval (self, s) and, at
\* the time of the write, successor_list[0] is still s; when the head has
\* changed since the read, the list is left as it is.
C21_GuardedAdoption ==
    [][\A t \in StabilizeCalls : AdoptionStep(t) =>
          LET n == t.node IN
          /\ successor_list'[n] # successor_list[n] =>
                /\ t.x # None
                /\ InOpenInterval(t.x, n, t.successor)
                /\ Hop(n) = t.successor
                /\ successor_list'[n] = [successor_list[n] EXCEPT ![1] = t.x]
          /\ Hop(n) # t.successor => successor_list'[n] = successor_list[n]
          /\ (/\ t.x # None
              /\ InOpenInterval(t.x, n, t.successor)
              /\ Hop(n) = t.successor) => Hop(n)' = t.x]_vars

\* A call has found the head of the list changed by another call on the same
\* node and has left it alone, although the predecessor it was sent lies
\* between the node and the successor it had read.
C21_Witness ==
    \E t \in StabilizeCalls :
        /\ t.phase = "notify"
        /\ ~t.wrote
        /\ t.x # None
        /\ InOpenInterval(t.x, t.node, t.successor)
        /\ Hop(t.node) \notin {t.x, t.successor}

\* ------------------------------------------------------------------ C40

\* x lies on the arc that leaves a clockwise and ends at b, b included; with
\* a = b the arc is the whole ring.
InHalfOpenInterval(x, a, b) == x = b \/ InOpenInterval(x, a, b)

\* C40: is_in_range(x, a, b) is the circular membership of x in (a, b) and
\* is_in_range_inclusive(x, a, b) that of x in (a, b], for all identifiers,
\* also when the interval wraps past zero (a > b) and when a = b, where the
\* open interval is the whole ring except a and the half-open one the whole
\* ring.
C40_CircularRange ==
    resp.op = "is_in_range" =>
        /\ resp.open = InOpenInterval(resp.id, resp.start, resp.end)
        /\ resp.inclusive = InHalfOpenInterval(resp.id, resp.start, resp.end)
        /\ resp.start = resp.end =>
              /\ resp.open = (resp.id # resp.start)
              /\ resp.inclusive

\* A wrapping interval with an identifier past zero in it, the end included
\* only by the half-open test.
C40_Witness ==
    /\ resp.op = "is_in_range"
    /\ resp.start > resp.end
    /\ resp.id = resp.end
    /\ resp.inclusive
    /\ ~resp.open

\* ------------------------------------------------------------------ C35

\* The entries of the finger table of n.
Fingers(n) == {finger_table[n][i] : i \in 0 .. (FINGER_TABLE_SIZE - 1)}

\* The candidates of n for id are the finger entries other than n inside
\* (n, id), each once.
CandidatesAreFingersInside(n, id) ==
    LET c == get_closest_candidates(n, id) IN
    /\ Range(c) = {f \in Fingers(n) : f # n /\ InOpenInterval(f, n, id)}
    /\ Cardinality(Range(c)) = Len(c)

\* The candidates are in the order of their clockwise distance to id, the
\* nearest before id first.
ClosestPrecedingFirst(n, id) ==
    LET c == get_closest_candidates(n, id) IN
    \A i \in 1 .. Len(c), j \in 1 .. Len(c) : i < j => Dist(c[i], id) < Dist(c[j], id)

\* C35: in a find_successor request the finger candidates for the target are exactly the distinct non-self
\* finger entries in the open interval (self, target), and they are tried
\* closest-preceding-first, also when the interval wraps past zero.
C35_CandidateOrder ==
    resp.op = "find_successor" =>
        /\ CandidatesAreFingersInside(resp.via, resp.id)
        /\ ClosestPrecedingFirst(resp.via, resp.id)

\* ------------------------------------------------------------------ C36

\* The nodes the invocation of find_successor_internal on n for id contacts:
\* none when id is in (n, successor] or no finger is a candidate.
InvocationContacts(n, id) ==
    IF \/ is_in_range_inclusive(id, n, Head(successor_list[n]))
       \/ get_closest_candidates(n, id) = <<>>
    THEN <<>>
    ELSE Contacts(n, id, get_closest_candidates(n, id) \o successor_list[n])

\* C36: within one find_successor invocation the successor-list fallback
\* skips self and every id already tried as a finger candidate, so no node is
\* contacted twice by the same invocation.
C36_NoNodeContactedTwice ==
    resp.op = "find_successor" =>
        LET c == InvocationContacts(resp.via, resp.id) IN
        /\ resp.via \notin Range(c)
        /\ Cardinality(Range(c)) = Len(c)

\* ------------------------------------------------------------------ C37

\* join of process n returns Ok in this step.
JoinReturned(n) == status[n] = "new" /\ status'[n] = "active"

\* join of some process returns an error in this step.
JoinFailed == resp'.op = "join" /\ ~resp'.ok

\* C37: join asks the contact for find_successor(self.id) and, on success,
\* overwrites only successor_list[0] with the answer: the predecessor stays
\* absent and the rest of the successor list, the finger table and the store
\* are unchanged, as is every other node; if the RPC fails, join returns the
\* error and nothing changes.
C37_JoinFrame ==
    [][/\ \A n \in Nodes : JoinReturned(n) =>
              /\ \E m \in Members : successor_list'[n][1] = find_successor(m, n)
              /\ IsNode(successor_list'[n][1])
              /\ Len(successor_list'[n]) = Len(successor_list[n])
              /\ Tail(successor_list'[n]) = Tail(successor_list[n])
              /\ predecessor'[n] = None
              /\ \A o \in Procs \ {n} : successor_list'[o] = successor_list[o]
              /\ UNCHANGED <<predecessor, finger_table, store, tasks>>
       /\ JoinFailed =>
              /\ status[resp'.via] = "new"
              /\ UNCHANGED <<status, predecessor, successor_list, finger_table, store, tasks>>]_vars

\* A process has joined and holds the answer as its only successor, no
\* predecessor and its initial fingers, and the join of another process has
\* just failed.
C37_Witness ==
    /\ resp.op = "join"
    /\ ~resp.ok
    /\ \E n \in hist.joined :
          /\ Reachable(n)
          /\ Len(successor_list[n]) = 1
          /\ Head(successor_list[n]) # n
          /\ predecessor[n] = None
          /\ finger_table[n] = NewFingerTable[n]

\* ------------------------------------------------------------------ C39

\* The loop of node n calls fix_fingers in this step.
FixFingersStep(n) == pc[n] = "fix_fingers" /\ pc'[n] # "fix_fingers"

\* The slots of the finger table of n written with another node in this step.
Refreshed(n) ==
    {i \in 0 .. (FINGER_TABLE_SIZE - 1) : finger_table'[n][i] # finger_table[n][i]}

\* The target of slot i of node n.
FingerTarget(n, i) == wrapping_add(n, 2 ^ i)

\* C39: fix_fingers for the chosen slot i computes target = self.id + 2^i
\* (wrapping) and, if find_successor(target) succeeds, writes the result to
\* finger_table[i] and to no other slot; if it fails the finger table is
\* unchanged; the table always has exactly FINGER_TABLE_SIZE entries and,
\* once the ring is stable, a refreshed slot i holds the live successor of
\* self.id + 2^i.
C39_FixFingers ==
    [][\A n \in Procs :
         /\ DOMAIN finger_table'[n] = 0 .. (FINGER_TABLE_SIZE - 1)
         /\ ~FixFingersStep(n) => finger_table'[n] = finger_table[n]
         /\ FixFingersStep(n) =>
              /\ Cardinality(Refreshed(n)) <= 1
              /\ \A i \in Refreshed(n) :
                    /\ IsNode(find_successor(n, FingerTarget(n, i)))
                    /\ finger_table'[n][i] = find_successor(n, FingerTarget(n, i))
                    /\ RingStable =>
                          finger_table'[n][i] = Owner(FingerTarget(n, i), Members)]_vars

\* ------------------------------------------------------------------ C34

\* The number of entries of a successor list that name other nodes of a
\* ring of the running nodes.
NearestCount ==
    IF Cardinality(Members) - 1 < SUCCESSOR_LIST_LIMIT
    THEN Cardinality(Members) - 1 ELSE SUCCESSOR_LIST_LIMIT

\* Entry j of every running node's list is the (j+1)-th running node
\* clockwise from it, for each j < min(L, N - 1): these entries are running,
\* distinct and none is the node itself.
NearestSuccessorsListed ==
    \A n \in Members :
        /\ Len(successor_list[n]) >= NearestCount
        /\ \A j \in 1 .. NearestCount :
              successor_list[n][j] = SuccessorsFrom(n, Members, NearestCount)[j]
        /\ \A j \in 1 .. NearestCount :
              /\ Reachable(successor_list[n][j])
              /\ successor_list[n][j] # n
              /\ \A i \in 1 .. NearestCount : i # j => successor_list[n][i] # successor_list[n][j]

\* The refresh of the list of n (update_successor_list) returns in this step.
RefreshStep(n) == pc[n] = "update_list" /\ pc'[n] # "update_list"

\* The list of n after the step is the head s followed by the list s held
\* before the step, cut to SUCCESSOR_LIST_LIMIT entries.
RefreshedFromHead(n) ==
    LET s == Head(successor_list[n])
        sent == successor_list[s]
        len == IF 1 + Len(sent) < SUCCESSOR_LIST_LIMIT
               THEN 1 + Len(sent) ELSE SUCCESSOR_LIST_LIMIT IN
    /\ Len(successor_list'[n]) = len
    /\ successor_list'[n][1] = s
    /\ \A j \in 2 .. len : successor_list'[n][j] = sent[j - 1]

\* C34: once the ring is stable with no churn, entry j of every node's
\* successor_list is the (j+1)-th live node clockwise from that node for each
\* j < min(L, N - 1), with no crashed node and no duplicate among those
\* entries; and each refresh sets the list to the head s followed by s's own
\* list, truncated to L.
C34_SuccessorListContent ==
    /\ <>[]NearestSuccessorsListed
    /\ [][\A n \in Nodes : RefreshStep(n) => RefreshedFromHead(n)]_vars

\* The ring of three nodes with every list refreshed to its full length:
\* the two other nodes in clockwise order, then the node itself and the two
\* again.
C34_Witness ==
    /\ Members = Nodes
    /\ NearestSuccessorsListed
    /\ \A n \in Nodes :
          /\ Len(successor_list[n]) = SUCCESSOR_LIST_LIMIT
          /\ successor_list[n] = SuccessorsFrom(n, Nodes, SUCCESSOR_LIST_LIMIT)

\* ------------------------------------------------------------------ C33

\* The keys of the replicate tasks spawned in this step.
Pushed == {t.key : t \in {u \in tasks' \ tasks : u.type = "replicate"}}

\* Node n is the primary of key k: hash(k) lies in (predecessor, n]; a node
\* that knows no predecessor holds k as primary only if it is the running
\* node at or first after hash(k).
PrimaryOf(n, k) ==
    IF predecessor[n] # None
    THEN InHalfOpenInterval(hashOf[k], predecessor[n], n)
    ELSE Owner(hashOf[k], Members) = n

\* C33: maintain_replication pushes a stored pair (k, v) to the first R
\* successors only if this node is the primary of k, hash(k) in
\* (predecessor.id, self.id]; whether or not a predecessor is known, copies
\* held as a replica for another node are not pushed onward.
C33_OnlyPrimaryPushes ==
    [][\A n \in Nodes : maintain_replication(n) =>
          \A k \in Pushed : store[n][k] # NoVal /\ PrimaryOf(n, k)]_vars

\* ------------------------------------------------------------------ C31

\* A client's put is answered in this step.
PutAnswered == hist'.puts = hist.puts + 1

\* The put answered in this step was received by the node that routing names
\* as owner (find_successor_internal returned the node itself).
PutAtOwner ==
    /\ PutAnswered
    /\ find_successor(resp'.via, hashOf[resp'.key]) = resp'.via

\* A replicate RPC fails in this step: its target does not run.
ReplicateFailed ==
    \E t \in tasks \ tasks' : t.type = "replicate" /\ ~Reachable(t.to)

\* C31: when routing names the receiving node as owner, put inserts the pair
\* into the local store and returns success = true with its replicate RPCs
\* still to be served, whether their targets run or not; a replicate RPC
\* that fails later changes no store and no response.
C31_FireAndForget ==
    [][/\ PutAtOwner =>
            LET n == resp'.via
                k == resp'.key IN
            /\ resp'.op = "put"
            /\ resp'.ok
            /\ store'[n][k] = hist'.last[k]
            /\ \A o \in Procs \ {n} : store'[o] = store[o]
            /\ \A to \in Range(Take(successor_list[n], REPLICATION_COUNT)) :
                  [type |-> "replicate", to |-> to, key |-> k, val |-> store'[n][k]] \in tasks'
       /\ ReplicateFailed => store' = store /\ resp' = NoResp /\ hist' = hist]_vars

\* A put was just stored by the node that received it and answered with
\* success while every other node it replicates to is down.
C31_Witness ==
    /\ resp.op = "put"
    /\ resp.ok
    /\ find_successor(resp.via, hashOf[resp.key]) = resp.via
    /\ store[resp.via][resp.key] = hist.last[resp.key]
    /\ \E t \in tasks : t.type = "replicate" /\ t.key = resp.key /\ ~Reachable(t.to)
    /\ \A to \in Range(Take(successor_list[resp.via], REPLICATION_COUNT)) \ {resp.via} :
          ~Reachable(to)

\* ------------------------------------------------------------------ C32

RECURSIVE Answering(_, _, _)
\* The node whose handler answers a put or get for id received by n, after
\* at most k forwards: n when find_successor names n; Unavailable when
\* routing fails or the node named cannot be reached.
Answering(n, id, k) ==
    LET s == find_successor(n, id) IN
    IF s = n THEN n
    ELSE IF s = Unavailable THEN Unavailable
    ELSE IF s = Hang \/ k = 0 THEN Hang
    ELSE IF ~Reachable(s) THEN Unavailable
    ELSE Answering(s, id, k - 1)

\* The node that answers the request of the response of this step.
AnswersRequest == Answering(resp'.via, hashOf[resp'.key], Cardinality(Procs))

\* C32: when routing fails with Unavailable, or the owner named by routing
\* cannot be reached, put and get return the error to the caller and no
\* node's store is modified by the failed put; otherwise the response of the
\* owner is returned unchanged.
C32_FailurePropagation ==
    [][/\ PutAnswered =>
            /\ resp'.op = "put"
            /\ resp'.ok <=> IsNode(AnswersRequest)
            /\ ~resp'.ok => store' = store /\ tasks' = tasks
            /\ resp'.ok => store'[AnswersRequest][resp'.key] = hist'.last[resp'.key]
       /\ resp'.op = "get" =>
            /\ store' = store
            /\ resp'.ok <=> IsNode(AnswersRequest)
            /\ resp'.ok =>
                  /\ resp'.found = (store[AnswersRequest][resp'.key] # NoVal)
                  /\ resp'.value = store[AnswersRequest][resp'.key]]_vars

\* A put has failed after an earlier put of the key succeeded through another
\* node: the stores still hold the earlier value.
C32_Witness ==
    /\ resp.op = "put"
    /\ ~resp.ok
    /\ hist.crashed # {}
    /\ hist.last[resp.key] # NoVal
    /\ resp.via \notin hist.entries
    /\ \E n \in Members : store[n][resp.key] = hist.last[resp.key]

\* ------------------------------------------------------------------ C38

\* The state of the nodes is the same after the step.
NodeStateUnchanged ==
    UNCHANGED <<predecessor, successor_list, finger_table, store>>

\* The leave RPC of node n calls leave_network in this step.
LeaveCalled(n) == status[n] = "active" /\ status'[n] = "leaving"

\* The transfer of leaver t.from fails in this step: its successor is down.
LeaveTransferFailed(t) ==
    /\ t.type = "leave"
    /\ t.phase = "sent"
    /\ ~Reachable(t.to)
    /\ t \notin tasks'

\* C38: leave_network sends a snapshot of the whole local store to
\* successor_list[0] unless that entry is the node itself, and then nothing
\* is sent; a failed transfer is swallowed without retry and the leaver's own
\* state is left unchanged; the leave handler still returns and the process
\* still exits after the grace delay.
C38_LeaveSwallowsFailure ==
    /\ [][/\ \A n \in Nodes : LeaveCalled(n) =>
               LET s == Head(successor_list[n]) IN
               /\ NodeStateUnchanged
               /\ s = n => tasks' = tasks
               /\ s # n =>
                     /\ Cardinality(tasks' \ tasks) = 1
                     /\ \A t \in tasks' \ tasks :
                           /\ t.type = "leave" /\ t.from = n /\ t.to = s
                           /\ \A k \in AllKeys : t.kvs[k] = store[n][k]
          /\ \A t \in tasks : LeaveTransferFailed(t) =>
               /\ NodeStateUnchanged
               /\ status' = status
               /\ \A u \in tasks' : u.type = "leave" => u.phase # "sent"]_vars
    /\ \A n \in Nodes : (status[n] = "leaving") ~> (status[n] = "left")

\* The transfer of a leaver that holds a pair has failed: the leaver still
\* holds its store and is about to exit.
C38_Witness ==
    \E t \in tasks :
        /\ t.type = "leave"
        /\ t.phase = "failed"
        /\ status[t.from] = "leaving"
        /\ t.to \in hist.crashed
        /\ \E k \in Keys : t.kvs[k] # NoVal
        /\ store[t.from] = t.kvs
        /\ ENABLED leave_exit(t.from)

=============================================================================
